---- MODULE Spec2Model ----
(***************************************************************************)
(* MiniGPT page: the Index page (session controller), the SettingsPanel    *)
(* (config store), the HistoryPanel and the OutputBox (typewriter reveal). *)
(*                                                                         *)
(* Text is a sequence of symbols.  A symbol is a string: one character of  *)
(* a prompt or of a generated text, one literal run of a template, or the  *)
(* decimal rendering of one interpolated number.  temperature and topP are *)
(* kept in hundredths (0.7 is 70) so that every number is an integer.      *)
(*                                                                         *)
(* Objects that the code shares by reference (the ModelConfig objects) are *)
(* cells of a heap; a HistoryEntry holds the address of its config.        *)
(***************************************************************************)
EXTENDS Integers, Sequences, FiniteSets, TLC

VARIABLES
    phase,            \* "mounting" | "ready" | "crashed" : the page's life
    prompt,           \* Index state: prompt
    isGenerating,     \* Index state: isGenerating
    currentResponse,  \* Index state: currentResponse
    chatHistory,      \* Index state: chatHistory (newest first)
    config,           \* Index state: config (address of a ModelConfig object)
    heap,             \* the ModelConfig objects, by address
    storage,          \* localStorage item 'minigpt-history'
    toast,            \* the last toast raised through useToast
    inflight,         \* the suspended handleGenerate call (its closure), if any
    now,              \* Date.now()
    fetchCalls,       \* number of POST /api/predict requests issued
    edits,            \* number of SettingsPanel changes made
    outputMounted,    \* OutputBox is rendered
    displayedContent, \* OutputBox state: displayedContent
    isTyping,         \* OutputBox state: isTyping
    timers,           \* the active setInterval timers of OutputBox
    effectDeps,       \* the [content, isGenerating] the typewriter effect last ran for
    cleanup,          \* the timer id the last effect's cleanup will clear (0: none)
    restarted         \* history: the last run of the effect cut a running reveal short

vars == <<phase, prompt, isGenerating, currentResponse, chatHistory, config, heap,
          storage, toast, inflight, now, fetchCalls, edits, outputMounted,
          displayedContent, isTyping, timers, effectDeps, cleanup, restarted>>

indexVars == <<phase, prompt, isGenerating, currentResponse, chatHistory, config, heap,
               storage, toast, inflight, now, fetchCalls, edits>>

outputVars ==
    <<outputMounted, displayedContent, isTyping, timers, effectDeps, cleanup, restarted>>

----------------------------------------------------------------------------
(* Bounds of the exploration *)

\* generations that may be started in one run
MaxGen == 1
\* the last reading of Date.now() a handler may take, where the clock advances
LastReading == 2
\* SettingsPanel changes that may be made in one run
MaxEdits == 1

----------------------------------------------------------------------------
(* Text helpers *)

IsPrefix(s, t) == Len(s) <= Len(t) /\ SubSeq(t, 1, Len(s)) = s

Contains(s, sub) ==
    \E i \in 1..(Len(s) - Len(sub) + 1) : SubSeq(s, i, i + Len(sub) - 1) = sub

IsSpace(c) == c = " "

RECURSIVE TrimStart(_)
TrimStart(s) == IF s # <<>> /\ IsSpace(Head(s)) THEN TrimStart(Tail(s)) ELSE s

RECURSIVE TrimEnd(_)
TrimEnd(s) ==
    IF s # <<>> /\ IsSpace(s[Len(s)]) THEN TrimEnd(SubSeq(s, 1, Len(s) - 1)) ELSE s

\* String.prototype.trim
Trim(s) == TrimEnd(TrimStart(s))

\* String.prototype.slice(0, n)
Slice0(s, n) == SubSeq(s, 1, IF n < Len(s) THEN n ELSE Len(s))

\* the prompts the user can type
Prompts == { <<>>, <<" ">>, <<" ", "b">> }

----------------------------------------------------------------------------
(* ModelConfig and the SettingsPanel's computations *)

\* object spread: {...a, ...b}
Merge(a, b) ==
    [k \in (DOMAIN a) \cup (DOMAIN b) |-> IF k \in DOMAIN b THEN b[k] ELSE a[k]]

PresetNames == {"creative", "balanced", "precise"}

\* (mutant) the creative preset asks for a temperature of 1.6
presetsTooHot ==
    [creative |-> [temperature |-> 160, maxTokens |-> 200, topK |-> 80, topP |-> 95],
     balanced |-> [temperature |-> 70, maxTokens |-> 150, topK |-> 50, topP |-> 90],
     precise  |-> [temperature |-> 30, maxTokens |-> 100, topK |-> 20, topP |-> 80]]

presets ==
    [creative |-> [temperature |-> 120, maxTokens |-> 200, topK |-> 80, topP |-> 95],
     balanced |-> [temperature |-> 70, maxTokens |-> 150, topK |-> 50, topP |-> 90],
     precise  |-> [temperature |-> 30, maxTokens |-> 100, topK |-> 20, topP |-> 80]]

\* the config the page starts with, and the one handleReset writes
InitialConfig ==
    [temperature |-> 70, maxTokens |-> 150, topK |-> 50, topP |-> 90, preset |-> "balanced"]

ResetConfig ==
    [temperature |-> 70, maxTokens |-> 150, topK |-> 50, topP |-> 90, preset |-> "balanced"]

NumericKeys == {"temperature", "maxTokens", "topK", "topP"}

\* the slider position tried for each field
SliderValues ==
    [temperature |-> {30}, maxTokens |-> {500}, topK |-> {1}, topP |-> {100}]

\* (mutant) the preset's values are written but the tag is not
PresetChangeValueKeepsTag(cfg, preset) == Merge(cfg, presets[preset])

\* the object handlePresetChange passes to onConfigChange
PresetChangeValue(cfg, preset) ==
    Merge(Merge(cfg, presets[preset]), [preset |-> preset])

\* (mutant) moving a slider also puts the tag back to 'balanced'
UpdateConfigValueRetagged(cfg, key, value) ==
    Merge(Merge(cfg, [k \in {key} |-> value]), [preset |-> "balanced"])

\* the object updateConfig passes to onConfigChange
UpdateConfigValue(cfg, key, value) == Merge(cfg, [k \in {key} |-> value])

----------------------------------------------------------------------------
(* The heap of ModelConfig objects *)

Free == [free |-> TRUE]

Addrs == 1..(MaxGen + 4)

NoCall == [kind |-> "none"]

\* every reference the page state and a suspended call hold, in a fixed order:
\* the config state, the history's entries, then the call's closure
RootSeq(cfg, hist, call) ==
    <<cfg>> \o [i \in 1..Len(hist) |-> hist[i].config]
            \o (IF call.kind = "call"
                THEN <<call.config>>
                     \o [i \in 1..Len(call.chatHistory) |-> call.chatHistory[i].config]
                ELSE <<>>)

RECURSIVE Dedup(_)
Dedup(s) ==
    IF s = <<>> THEN <<>>
    ELSE LET r == Dedup(SubSeq(s, 1, Len(s) - 1))
         IN  IF \E i \in 1..Len(r) : r[i] = s[Len(s)] THEN r ELSE Append(r, s[Len(s)])

\* where the object at address a goes when the live objects are compacted in order
NewName(order, a) == CHOOSE i \in 1..Len(order) : order[i] = a

Moved(hist, order) ==
    [i \in 1..Len(hist) |-> [hist[i] EXCEPT !.config = NewName(order, hist[i].config)]]

\* The state a handler leaves: config state cfg, history hist, suspended call `call`,
\* objects h.  Objects nothing refers to any more are collected and the live ones
\* compacted (addresses are not observable; which references are equal is kept).
Commit(cfg, hist, call, h) ==
    \E order \in {Dedup(RootSeq(cfg, hist, call))} :
        /\ config' = NewName(order, cfg)
        /\ chatHistory' = Moved(hist, order)
        /\ inflight' = IF call.kind = "call"
                       THEN [call EXCEPT !.config = NewName(order, call.config),
                                         !.chatHistory = Moved(call.chatHistory, order)]
                       ELSE call
        /\ heap' = [a \in Addrs |-> IF a <= Len(order) THEN h[order[a]] ELSE Free]

\* a history with every config reference replaced by the object it refers to
Deref(h, hist) == [i \in 1..Len(hist) |-> [hist[i] EXCEPT !.config = h[hist[i].config]]]

\* the address a new object gets
NewAddr(h) == CHOOSE a \in Addrs : h[a] = Free /\ \A b \in Addrs : h[b] = Free => a <= b

----------------------------------------------------------------------------
(* HistoryEntry (ChatMessage) and its JSON form *)

\* new Date() at clock reading ms
DateOf(ms) == [kind |-> "Date", ms |-> ms]

\* Date.prototype.toJSON: the ISO string of the same instant; a string stays a string
ToISO(ts) == [kind |-> "string", ms |-> ts.ms]

\* JSON.stringify(newHistory): configs are written by value, Dates as strings
JSONstringify(h, hist) ==
    [i \in 1..Len(hist) |->
        [hist[i] EXCEPT !.config = h[hist[i].config], !.timestamp = ToISO(hist[i].timestamp)]]

\* JSON.parse(savedHistory): every config becomes a new object; timestamps stay strings.
\* The result is [heap, entries].
RECURSIVE JSONparse(_, _)
JSONparse(h, js) ==
    IF js = <<>> THEN [heap |-> h, entries |-> <<>>]
    ELSE LET a    == NewAddr(h)
             h1   == [h EXCEPT ![a] = Head(js).config]
             rest == JSONparse(h1, Tail(js))
         IN  [heap |-> rest.heap,
              entries |-> <<[Head(js) EXCEPT !.config = a]>> \o rest.entries]

Absent == [kind |-> "absent"]
Malformed == [kind |-> "malformed"]
Stored(js) == [kind |-> "json", value |-> js]

\* the collection a stored item stands for (an absent key: the empty collection)
StoredCollection(st) == IF st.kind = "json" THEN st.value ELSE <<>>

----------------------------------------------------------------------------
(* The texts and numbers handleGenerate writes *)

Placeholder == << "Sample generated response from MiniGPT-MLOps model..." >>

DefaultTokensUsed == 42

MockInferenceTime == 1200

MockTokensUsed == 85

\* (mutant) the template leaves out the Top-p line
MockResponseWithoutTopP(p, cfg) ==
    << "This is a demonstration of MiniGPT-MLOps generating text based on your prompt: \"" >>
    \o p \o
    << "\"\n\nThe model would process this input using the transformer architecture with the following parameters:\n- Temperature: ",
       ToString(cfg.temperature),
       "\n- Max Tokens: ", ToString(cfg.maxTokens),
       "\n- Top-k: ", ToString(cfg.topK),
       "\n\nIn a real implementation, this would connect to your FastAPI backend at /predict endpoint." >>

\* the template literal of the catch block
MockResponse(p, cfg) ==
    << "This is a demonstration of MiniGPT-MLOps generating text based on your prompt: \"" >>
    \o p \o
    << "\"\n\nThe model would process this input using the transformer architecture with the following parameters:\n- Temperature: ",
       ToString(cfg.temperature),
       "\n- Max Tokens: ", ToString(cfg.maxTokens),
       "\n- Top-k: ", ToString(cfg.topK),
       "\n- Top-p: ", ToString(cfg.topP),
       "\n\nIn a real implementation, this would connect to your FastAPI backend at /predict endpoint." >>

Undefined == [defined |-> FALSE]
Defined(v) == [defined |-> TRUE, value |-> v]

\* JavaScript truthiness of an optional string and of an optional number
TruthyText(x) == x.defined /\ x.value # <<>>
TruthyNumber(x) == x.defined /\ x.value # 0

\* data.generated_text || d and data.tokens_used || d
TextOr(x, d) == IF TruthyText(x) THEN x.value ELSE d
NumberOr(x, d) == IF TruthyNumber(x) THEN x.value ELSE d

\* the bodies a 2xx response may carry
Payloads ==
    { [generated_text |-> Undefined, tokens_used |-> Undefined],
      [generated_text |-> Defined(<<>>), tokens_used |-> Defined(0)],
      [generated_text |-> Defined(<<"x", "y">>), tokens_used |-> Defined(7)] }

\* the ways the collaborator call fails: non-2xx, transport error, unparsable body
FailureKinds == {"http_error", "transport_error", "bad_body"}

\* (mutant) the entry records the prompt and config of the render that is current
\* when the request settles
SuccessMessageOfCurrentState(call, data, t) ==
    [id |-> ToString(t),
     prompt |-> prompt,
     response |-> TextOr(data.generated_text, Placeholder),
     timestamp |-> DateOf(t),
     config |-> config,
     inferenceTime |-> t - call.startTime,
     tokensUsed |-> NumberOr(data.tokens_used, DefaultTokensUsed)]

\* newMessage of the try block
SuccessMessage(call, data, t) ==
    [id |-> ToString(t),
     prompt |-> call.prompt,
     response |-> TextOr(data.generated_text, Placeholder),
     timestamp |-> DateOf(t),
     config |-> call.config,
     inferenceTime |-> t - call.startTime,
     tokensUsed |-> NumberOr(data.tokens_used, DefaultTokensUsed)]

\* newMessage of the catch block
MockMessage(call, h, t) ==
    [id |-> ToString(t),
     prompt |-> call.prompt,
     response |-> MockResponse(call.prompt, h[call.config]),
     timestamp |-> DateOf(t),
     config |-> call.config,
     inferenceTime |-> MockInferenceTime,
     tokensUsed |-> MockTokensUsed]

\* (mutant) the earlier entries are dropped
UpdatedHistoryOnlyNew(msg, call) == <<msg>>

\* (mutant) the new entry is put at the end
UpdatedHistoryAppended(msg, call) == Append(call.chatHistory, msg)

\* updatedHistory = [newMessage, ...chatHistory]
UpdatedHistory(msg, call) == <<msg>> \o call.chatHistory

\* (mutant) the response keeps what is on display
ShownResponseKept(msg) == currentResponse

\* setCurrentResponse(newMessage.response)
ShownResponse(msg) == msg.response

\* (mutant) the prompt is tested without trim()
IsBlankUntrimmed(p) == p = <<>>

\* !prompt.trim()
IsBlank(p) == Trim(p) = <<>>

NoToast == "none"

----------------------------------------------------------------------------
(* OutputBox: the typewriter effect *)

NoDeps == [kind |-> "none"]
Deps(content, generating) == [kind |-> "deps", content |-> content, isGenerating |-> generating]

\* the dependency array [content, isGenerating] differs from the one the effect last
\* ran for (or the component went away with an effect still to clean up)
EffectPending ==
    IF outputMounted THEN effectDeps # Deps(currentResponse, isGenerating)
    ELSE effectDeps # NoDeps

\* setInterval's result: an id no live timer or cleanup holds
NewTimerId ==
    CHOOSE n \in 1..(Cardinality(timers) + 2) :
        /\ n # cleanup /\ \A t \in timers : t.id # n
        /\ \A m \in 1..(n - 1) : m = cleanup \/ \E t \in timers : t.id = m

\* (mutant) clearInterval leaves the timer running
ClearIntervalIgnored(ts, id) == ts

\* clearInterval(timer)
ClearInterval(ts, id) == { t \in ts : t.id # id }

\* (mutant) the effect returns no cleanup
EffectCleanupMissing(ts, id) == ts

\* the cleanup the previous run of the effect returned: () => clearInterval(timer)
EffectCleanup(ts, id) == ClearInterval(ts, id)

\* a timer of ts that cleanup id stops before it has revealed all of its content
CutsShort(ts, id) == \E t \in ts : t.id = id /\ t.index < Len(t.content)

\* (mutant) the effect does not look at isGenerating
ShouldRevealIgnoringGenerating(content, generating) == content # <<>>

\* the condition of the effect's body: content && !isGenerating
ShouldReveal(content, generating) == content # <<>> /\ ~generating

\* The effect runs for the current props: the previous run's cleanup first, then the
\* body.
RunEffect ==
    /\ phase = "ready"
    /\ EffectPending
    /\ \E id \in {NewTimerId} : \E cleared \in {EffectCleanup(timers, cleanup)} :
         IF outputMounted
         THEN /\ effectDeps' = Deps(currentResponse, isGenerating)
              /\ IF ShouldReveal(currentResponse, isGenerating)
                 THEN /\ isTyping' = TRUE
                      /\ displayedContent' = <<>>
                      /\ timers' = cleared \cup
                             {[id |-> id, content |-> currentResponse, index |-> 0]}
                      /\ cleanup' = id
                      /\ restarted' = CutsShort(timers, cleanup)
                 ELSE /\ timers' = cleared
                      /\ cleanup' = 0
                      /\ restarted' = FALSE
                      /\ UNCHANGED <<isTyping, displayedContent>>
         ELSE /\ effectDeps' = NoDeps
              /\ timers' = cleared
              /\ cleanup' = 0
              /\ restarted' = FALSE
              /\ UNCHANGED <<isTyping, displayedContent>>
    /\ UNCHANGED outputMounted
    /\ UNCHANGED indexVars

\* (mutant) a tick reveals two characters and counts one
TimerTickSkipping(t) ==
    /\ phase = "ready"
    /\ t \in timers
    /\ IF t.index < Len(t.content)
       THEN /\ displayedContent' =
                  IF outputMounted THEN Slice0(t.content, t.index + 2) ELSE displayedContent
            /\ timers' = (timers \ {t}) \cup {[t EXCEPT !.index = t.index + 1]}
            /\ UNCHANGED isTyping
       ELSE /\ isTyping' = IF outputMounted THEN FALSE ELSE isTyping
            /\ timers' = ClearInterval(timers, t.id)
            /\ UNCHANGED displayedContent
    /\ UNCHANGED <<outputMounted, effectDeps, cleanup, restarted>>
    /\ UNCHANGED indexVars

\* One firing of the interval callback of timer t.  State setters of a component
\* that is no longer mounted do nothing.
TimerTick(t) ==
    /\ phase = "ready"
    /\ t \in timers
    /\ IF t.index < Len(t.content)
       THEN /\ displayedContent' =
                  IF outputMounted THEN Slice0(t.content, t.index + 1) ELSE displayedContent
            /\ timers' = (timers \ {t}) \cup {[t EXCEPT !.index = t.index + 1]}
            /\ UNCHANGED isTyping
       ELSE /\ isTyping' = IF outputMounted THEN FALSE ELSE isTyping
            /\ timers' = ClearInterval(timers, t.id)
            /\ UNCHANGED displayedContent
    /\ UNCHANGED <<outputMounted, effectDeps, cleanup, restarted>>
    /\ UNCHANGED indexVars

\* Index renders <OutputBox> only when (currentResponse || isGenerating); a newly
\* mounted OutputBox starts from useState('') and useState(false).
RenderOutput ==
    /\ outputMounted' = (currentResponse' # <<>> \/ isGenerating')
    /\ IF outputMounted' /\ outputMounted
       THEN UNCHANGED <<displayedContent, isTyping>>
       ELSE displayedContent' = <<>> /\ isTyping' = FALSE
    /\ UNCHANGED <<timers, effectDeps, cleanup, restarted>>

\* inferenceTime={chatHistory[0]?.inferenceTime} and tokensUsed={chatHistory[0]?.tokensUsed}:
\* the metrics Index passes to the OutputBox are those of the newest entry
InferenceTimeProp ==
    IF chatHistory # <<>> THEN Defined(chatHistory[1].inferenceTime) ELSE Undefined
TokensUsedProp ==
    IF chatHistory # <<>> THEN Defined(chatHistory[1].tokensUsed) ELSE Undefined

\* {inferenceTime && (...)} and {tokensUsed && (...)} of the OutputBox header
InferenceTimeShown == TruthyNumber(InferenceTimeProp)
TokensUsedShown == TruthyNumber(TokensUsedProp)

\* an event handler of the page can run: the page is up and React has flushed the
\* effects of the last render
HandlerCanRun == phase = "ready" /\ ~EffectPending

\* the contents and flags a parent may pass to an OutputBox
PlayerContents == { <<>>, <<"a", "b">>, <<"a", "b", "c">>, <<"x", "y">> }

\* The parent renders the mounted OutputBox with props (content c, isGenerating g).
SetProps(c, g) ==
    /\ HandlerCanRun
    /\ outputMounted
    /\ <<c, g>> # <<currentResponse, isGenerating>>
    /\ currentResponse' = c
    /\ isGenerating' = g
    /\ UNCHANGED <<phase, prompt, chatHistory, config, heap, storage, toast, inflight,
                   now, fetchCalls, edits>>
    /\ UNCHANGED outputVars

\* (mutant) the effect has no dependency array: every render schedules it again
RerenderRestarting(p) ==
    /\ HandlerCanRun
    /\ outputMounted
    /\ p # prompt
    /\ prompt' = p
    /\ effectDeps' = NoDeps
    /\ UNCHANGED <<outputMounted, displayedContent, isTyping, timers, cleanup, restarted>>
    /\ UNCHANGED <<phase, isGenerating, currentResponse, chatHistory, config, heap,
                   storage, toast, inflight, now, fetchCalls, edits>>

\* The parent renders again because state of its own changed (here its prompt) and
\* passes the mounted OutputBox the same content and isGenerating.
Rerender(p) ==
    /\ HandlerCanRun
    /\ outputMounted
    /\ p # prompt
    /\ prompt' = p
    /\ UNCHANGED outputVars
    /\ UNCHANGED <<phase, isGenerating, currentResponse, chatHistory, config, heap,
                   storage, toast, inflight, now, fetchCalls, edits>>

\* The parent mounts an OutputBox with props (c, g).
MountOutput(c, g) ==
    /\ HandlerCanRun
    /\ ~outputMounted
    /\ currentResponse' = c
    /\ isGenerating' = g
    /\ outputMounted' = TRUE
    /\ displayedContent' = <<>>
    /\ isTyping' = FALSE
    /\ UNCHANGED <<timers, effectDeps, cleanup, restarted>>
    /\ UNCHANGED <<phase, prompt, chatHistory, config, heap, storage, toast, inflight,
                   now, fetchCalls, edits>>

\* The parent stops rendering the OutputBox: its state is gone, its effect's cleanup
\* is still to run.
UnmountOutput ==
    /\ HandlerCanRun
    /\ outputMounted
    /\ outputMounted' = FALSE
    /\ displayedContent' = <<>>
    /\ isTyping' = FALSE
    /\ UNCHANGED <<timers, effectDeps, cleanup, restarted>>
    /\ UNCHANGED indexVars

----------------------------------------------------------------------------
(* Index: the page's effects and handlers *)

\* what localStorage may hold when the page opens: nothing, an item this program
\* wrote in an earlier session, or an item that is not JSON
EarlierEntry ==
    [id |-> ToString(0),
     prompt |-> <<"a">>,
     response |-> MockResponse(<<"a">>, InitialConfig),
     timestamp |-> ToISO(DateOf(0)),
     config |-> InitialConfig,
     inferenceTime |-> MockInferenceTime,
     tokensUsed |-> MockTokensUsed]

InitialStorages == { Absent, Stored(<<EarlierEntry>>), Malformed }

\* useEffect(() => {...}, []) of Index: load the history once, when the page mounts.
\* JSON.parse throws on an item that is not JSON; nothing catches it and React takes
\* the page down.
LoadHistory ==
    /\ phase = "mounting"
    /\ IF storage.kind = "malformed"
       THEN /\ phase' = "crashed"
            /\ UNCHANGED <<chatHistory, heap, config, inflight>>
       ELSE /\ phase' = "ready"
            /\ IF storage.kind = "json"
               THEN LET parsed == JSONparse(heap, storage.value)
                    IN  Commit(config, parsed.entries, inflight, parsed.heap)
               ELSE UNCHANGED <<chatHistory, heap, config, inflight>>
    /\ UNCHANGED <<prompt, isGenerating, currentResponse, storage, toast, now,
                   fetchCalls, edits>>

\* (mutant) the item is written from the state, not from the argument
SetItemFromState(newHistory) == Stored(JSONstringify(heap, chatHistory))

\* localStorage.setItem('minigpt-history', JSON.stringify(newHistory))
SetItem(newHistory) == Stored(JSONstringify(heap, newHistory))

\* (mutant) the textarea stays enabled during a generation
TextareaDisabledNever == FALSE

\* PromptInput's Textarea: disabled={isGenerating}
TextareaDisabled == isGenerating

\* PromptInput's Button: disabled={isGenerating || !value.trim()}
ButtonDisabled == isGenerating \/ Trim(prompt) = <<>>

\* onChange of the textarea
SetPrompt(p) ==
    /\ phase = "ready"
    /\ ~TextareaDisabled
    /\ p # prompt
    /\ prompt' = p
    /\ UNCHANGED <<phase, isGenerating, currentResponse, chatHistory, config, heap,
                   storage, toast, inflight, now, fetchCalls, edits>>

\* the body of the POST /api/predict request
RequestBody(p, cfg) ==
    [text |-> p, temperature |-> cfg.temperature, max_tokens |-> cfg.maxTokens,
     top_k |-> cfg.topK, top_p |-> cfg.topP]

\* the closure of the handleGenerate call made in the current render, with the
\* reading t of Date.now() as its startTime, and the request body it has sent
Closure(t) ==
    [kind |-> "call", prompt |-> prompt, config |-> config,
     chatHistory |-> chatHistory, startTime |-> t,
     body |-> RequestBody(prompt, heap[config])]

\* handleGenerate up to its first await; t is the reading of Date.now() it takes
HandleGenerate(t) ==
    IF IsBlank(prompt)
    THEN /\ toast' = "Empty prompt"
         /\ UNCHANGED <<phase, prompt, isGenerating, currentResponse, chatHistory,
                        config, heap, storage, inflight, now, fetchCalls, edits>>
    ELSE /\ fetchCalls < MaxGen
         /\ isGenerating' = TRUE
         /\ currentResponse' = <<>>
         /\ t >= now
         /\ now' = t
         /\ Commit(config, chatHistory, Closure(t), heap)
         /\ fetchCalls' = fetchCalls + 1
         /\ UNCHANGED <<phase, prompt, storage, toast, edits>>

\* onClick of the Generate button
ClickGenerate(t) ==
    /\ phase = "ready"
    /\ ~ButtonDisabled
    /\ HandleGenerate(t)

\* Ctrl/Cmd+Enter in the textarea
ShortcutGenerate(t) ==
    /\ phase = "ready"
    /\ ~TextareaDisabled
    /\ HandleGenerate(t)

\* saveHistory(newHistory), as the last state change of the suspended call
SaveHistory(newHistory) ==
    /\ storage' = SetItem(newHistory)
    /\ Commit(config, newHistory, NoCall, heap)

\* (mutant) setIsGenerating(false) is not in a finally block and is skipped
FinishGenerateNoFinally(msg, title, t) ==
    /\ t >= now
    /\ now' = t
    /\ currentResponse' = ShownResponse(msg)
    /\ SaveHistory(UpdatedHistory(msg, inflight))
    /\ toast' = title
    /\ UNCHANGED isGenerating
    /\ UNCHANGED <<phase, prompt, fetchCalls, edits>>

\* the rest of handleGenerate once the request has settled: msg is the newMessage
\* built at clock reading t, title the toast raised; then the finally block
FinishGenerate(msg, title, t) ==
    /\ t >= now
    /\ now' = t
    /\ currentResponse' = ShownResponse(msg)
    /\ SaveHistory(UpdatedHistory(msg, inflight))
    /\ toast' = title
    /\ isGenerating' = FALSE
    /\ UNCHANGED <<phase, prompt, fetchCalls, edits>>

\* fetch resolved with a 2xx response whose body parsed to data; t is the reading of
\* Date.now()
FetchResolves(data, t) ==
    /\ phase = "ready"
    /\ inflight.kind = "call"
    /\ FinishGenerate(SuccessMessage(inflight, data, t), "Text generated successfully!", t)

\* fetch rejected, the status was not ok, or response.json() rejected: the catch block;
\* t is the reading of Date.now()
FetchRejects(kind, t) ==
    /\ phase = "ready"
    /\ inflight.kind = "call"
    /\ kind \in FailureKinds
    /\ FinishGenerate(MockMessage(inflight, heap, t), "Demo mode active", t)

\* (mutant) the config is not restored
HandleHistorySelectNoConfig(i) ==
    /\ phase = "ready"
    /\ i \in 1..Len(chatHistory)
    /\ prompt' = chatHistory[i].prompt
    /\ currentResponse' = chatHistory[i].response
    /\ UNCHANGED <<config, chatHistory, inflight, heap>>
    /\ UNCHANGED <<phase, isGenerating, storage, toast, now, fetchCalls, edits>>

\* a card of the HistoryPanel is clicked: onSelect(message)
HandleHistorySelect(i) ==
    /\ phase = "ready"
    /\ i \in 1..Len(chatHistory)
    /\ prompt' = chatHistory[i].prompt
    /\ currentResponse' = chatHistory[i].response
    /\ Commit(chatHistory[i].config, chatHistory, inflight, heap)
    /\ UNCHANGED <<phase, isGenerating, storage, toast, now, fetchCalls, edits>>

\* (mutant) an empty collection is written instead of removing the key
ClearHistoryWritesEmpty ==
    /\ phase = "ready"
    /\ Len(chatHistory) > 0
    /\ storage' = Stored(<<>>)
    /\ Commit(config, <<>>, inflight, heap)
    /\ toast' = "History cleared"
    /\ UNCHANGED <<phase, prompt, isGenerating, currentResponse, now, fetchCalls, edits>>

\* "Clear All History", shown when history.length > 0
ClearHistory ==
    /\ phase = "ready"
    /\ Len(chatHistory) > 0
    /\ storage' = Absent
    /\ Commit(config, <<>>, inflight, heap)
    /\ toast' = "History cleared"
    /\ UNCHANGED <<phase, prompt, isGenerating, currentResponse, now, fetchCalls, edits>>

\* (mutant) the config object in the state is written in place
SetConfigInPlace(value) ==
    /\ phase = "ready"
    /\ edits < MaxEdits
    /\ edits' = edits + 1
    /\ Commit(config, chatHistory, inflight, [heap EXCEPT ![config] = value])
    /\ UNCHANGED <<phase, prompt, isGenerating, currentResponse, storage, toast, now,
                   fetchCalls>>

\* onConfigChange={setConfig} with a newly built object
SetConfig(value) ==
    /\ phase = "ready"
    /\ edits < MaxEdits
    /\ edits' = edits + 1
    /\ LET a == NewAddr(heap)
       IN  Commit(a, chatHistory, inflight, [heap EXCEPT ![a] = value])
    /\ UNCHANGED <<phase, prompt, isGenerating, currentResponse, storage, toast, now,
                   fetchCalls>>

\* a preset button of the SettingsPanel
HandlePresetChange(preset) == SetConfig(PresetChangeValue(heap[config], preset))

\* (mutant) the reset keeps the preset tag of the current config
HandleResetKeepsTag == SetConfig(Merge(ResetConfig, [preset |-> heap[config].preset]))

\* the reset button of the SettingsPanel
HandleReset == SetConfig(ResetConfig)

\* a slider of the SettingsPanel
UpdateConfig(key, value) == SetConfig(UpdateConfigValue(heap[config], key, value))

----------------------------------------------------------------------------
(* The page *)

Init ==
    /\ phase = "mounting"
    /\ prompt = <<>>
    /\ isGenerating = FALSE
    /\ currentResponse = <<>>
    /\ chatHistory = <<>>
    /\ config = 1
    /\ heap = [a \in Addrs |-> IF a = 1 THEN InitialConfig ELSE Free]
    /\ storage \in InitialStorages
    /\ toast = NoToast
    /\ inflight = NoCall
    /\ now = 1
    /\ fetchCalls = 0
    /\ edits = 0
    /\ outputMounted = FALSE
    /\ displayedContent = <<>>
    /\ isTyping = FALSE
    /\ timers = {}
    /\ effectDeps = NoDeps
    /\ cleanup = 0
    /\ restarted = FALSE

\* The session controller and the config store by themselves: no handler of Index
\* reads anything of the OutputBox, which is left out of this specification.  All
\* events fall within one millisecond: no claim checked here reads the clock.
Next ==
    \/ LoadHistory /\ UNCHANGED outputVars
    \/ \E p \in Prompts : SetPrompt(p) /\ UNCHANGED outputVars
    \/ ClickGenerate(now) /\ UNCHANGED outputVars
    \/ ShortcutGenerate(now) /\ UNCHANGED outputVars
    \/ \E data \in Payloads : FetchResolves(data, now) /\ UNCHANGED outputVars
    \/ \E kind \in FailureKinds : FetchRejects(kind, now) /\ UNCHANGED outputVars
    \/ \E i \in 1..Len(chatHistory) : HandleHistorySelect(i) /\ UNCHANGED outputVars
    \/ ClearHistory /\ UNCHANGED outputVars
    \/ \E preset \in PresetNames : HandlePresetChange(preset) /\ UNCHANGED outputVars
    \/ HandleReset /\ UNCHANGED outputVars
    \/ \E key \in NumericKeys : \E value \in SliderValues[key] :
           UpdateConfig(key, value) /\ UNCHANGED outputVars

Spec == Init /\ [][Next]_vars

----------------------------------------------------------------------------
(* An OutputBox by itself, under a parent that may pass it any props *)

InitPlayer ==
    /\ phase = "ready"
    /\ prompt = <<>>
    /\ isGenerating = FALSE
    /\ currentResponse = <<>>
    /\ chatHistory = <<>>
    /\ config = 1
    /\ heap = [a \in Addrs |-> IF a = 1 THEN InitialConfig ELSE Free]
    /\ storage = Absent
    /\ toast = NoToast
    /\ inflight = NoCall
    /\ now = 1
    /\ fetchCalls = 0
    /\ edits = 0
    /\ outputMounted = FALSE
    /\ displayedContent = <<>>
    /\ isTyping = FALSE
    /\ timers = {}
    /\ effectDeps = NoDeps
    /\ cleanup = 0
    /\ restarted = FALSE

NextPlayer ==
    \/ \E c \in PlayerContents : \E g \in BOOLEAN : MountOutput(c, g)
    \/ \E c \in PlayerContents : \E g \in BOOLEAN : SetProps(c, g)
    \/ \E p \in Prompts : Rerender(p)
    \/ UnmountOutput
    \/ RunEffect
    \/ \E t \in timers : TimerTick(t)

SpecPlayer == InitPlayer /\ [][NextPlayer]_vars

\* setInterval keeps firing the callback of a timer until it is cleared
TimerFires == \E t \in timers : TimerTick(t)

SpecPlayerLive == InitPlayer /\ [][NextPlayer]_vars /\ WF_vars(TimerFires)

----------------------------------------------------------------------------
(* The SettingsPanel by itself, from any config its controls can produce *)

\* the values a field can be brought to that are tried: the ends of its slider and
\* the values of the three presets
FieldValues ==
    [temperature |-> {10, 30, 70, 120, 150},
     maxTokens   |-> {10, 100, 150, 200, 500},
     topK        |-> {1, 20, 50, 80, 100},
     topP        |-> {10, 80, 90, 95, 100}]

\* the ModelConfig objects over these values
Configs ==
    [temperature : FieldValues.temperature, maxTokens : FieldValues.maxTokens,
     topK : FieldValues.topK, topP : FieldValues.topP, preset : PresetNames]

InitSettings ==
    /\ phase = "ready"
    /\ prompt = <<>>
    /\ isGenerating = FALSE
    /\ currentResponse = <<>>
    /\ chatHistory = <<>>
    /\ config = 1
    /\ \E cfg \in Configs : heap = [a \in Addrs |-> IF a = 1 THEN cfg ELSE Free]
    /\ storage = Absent
    /\ toast = NoToast
    /\ inflight = NoCall
    /\ now = 1
    /\ fetchCalls = 0
    /\ edits = 0
    /\ outputMounted = FALSE
    /\ displayedContent = <<>>
    /\ isTyping = FALSE
    /\ timers = {}
    /\ effectDeps = NoDeps
    /\ cleanup = 0
    /\ restarted = FALSE

NextSettings ==
    \/ \E preset \in PresetNames : HandlePresetChange(preset) /\ UNCHANGED outputVars
    \/ HandleReset /\ UNCHANGED outputVars
    \/ \E key \in NumericKeys : \E value \in FieldValues[key] :
           UpdateConfig(key, value) /\ UNCHANGED outputVars

SpecSettings == InitSettings /\ [][NextSettings]_vars

----------------------------------------------------------------------------
(* The catch block of handleGenerate by itself: a failing generation follows an *)
(* earlier failing generation                                                    *)

\* the prompts and configs of the two generations
FallbackPrompts == { <<"b">>, <<" ", "b">> }

FallbackConfigs ==
    [temperature : {30, 70}, maxTokens : {100, 150}, topK : {20, 50}, topP : {80, 90},
     preset : {"balanced", "precise"}]

\* the entry an earlier generation of prompt p under config object a left, its
\* collaborator call having failed at clock reading 0
EarlierFallback(p, a, h) ==
    MockMessage([prompt |-> p, config |-> a], h, 0)

\* The page with the entry of a failed generation (p2, cfg2) in its history and the
\* request of a generation (p1, cfg1) in flight.
InitFallback ==
    /\ phase = "ready"
    /\ isGenerating = TRUE
    /\ currentResponse = <<>>
    /\ config = 1
    /\ now = 1
    /\ toast = "Demo mode active"
    /\ fetchCalls = 1
    /\ edits = 0
    /\ \E p1 \in FallbackPrompts : \E p2 \in FallbackPrompts :
       \E cfg1 \in FallbackConfigs : \E cfg2 \in FallbackConfigs :
          /\ prompt = p1
          /\ heap = [a \in Addrs |-> IF a = 1 THEN cfg1 ELSE IF a = 2 THEN cfg2 ELSE Free]
          /\ chatHistory = << EarlierFallback(p2, 2, heap) >>
          /\ storage = Stored(JSONstringify(heap, chatHistory))
          /\ inflight = [kind |-> "call", prompt |-> p1, config |-> 1,
                         chatHistory |-> chatHistory, startTime |-> 1,
                         body |-> RequestBody(p1, cfg1)]
    /\ outputMounted = FALSE
    /\ displayedContent = <<>>
    /\ isTyping = FALSE
    /\ timers = {}
    /\ effectDeps = NoDeps
    /\ cleanup = 0
    /\ restarted = FALSE

NextFallback ==
    \E kind \in FailureKinds : FetchRejects(kind, now) /\ UNCHANGED outputVars

SpecFallback == InitFallback /\ [][NextFallback]_vars

----------------------------------------------------------------------------
(* The page composition: Index driving its OutputBox.  Every handler of Index ends *)
(* in a render that passes the OutputBox its new props; the effect of that render  *)
(* and the ticks of the reveal timer are steps of their own.                       *)

NextPage ==
    \/ LoadHistory /\ RenderOutput
    \/ \E p \in Prompts : HandlerCanRun /\ SetPrompt(p) /\ RenderOutput
    \/ HandlerCanRun /\ ClickGenerate(now) /\ RenderOutput
    \/ HandlerCanRun /\ ShortcutGenerate(now) /\ RenderOutput
    \/ \E data \in Payloads : HandlerCanRun /\ FetchResolves(data, now) /\ RenderOutput
    \/ \E kind \in FailureKinds : HandlerCanRun /\ FetchRejects(kind, now) /\ RenderOutput
    \/ \E i \in 1..Len(chatHistory) :
           HandlerCanRun /\ HandleHistorySelect(i) /\ RenderOutput
    \/ HandlerCanRun /\ ClearHistory /\ RenderOutput
    \/ \E preset \in PresetNames :
           HandlerCanRun /\ HandlePresetChange(preset) /\ RenderOutput
    \/ HandlerCanRun /\ HandleReset /\ RenderOutput
    \/ \E key \in NumericKeys : \E value \in SliderValues[key] :
           HandlerCanRun /\ UpdateConfig(key, value) /\ RenderOutput
    \/ RunEffect
    \/ \E t \in timers : TimerTick(t)

SpecPage == Init /\ [][NextPage]_vars

----------------------------------------------------------------------------
(* The session controller with a clock that advances: a generation is made   *)
(* after an earlier generation of the same session has completed              *)

\* the readings Date.now() may give next: the clock has millisecond resolution and
\* does not go back
ClockReadings == now..LastReading

\* The page after a generation of prompt ' b' whose request failed and completed at
\* reading 1; fetchCalls counts the requests made from here on.
InitTimed ==
    /\ phase = "ready"
    /\ prompt = <<" ", "b">>
    /\ isGenerating = FALSE
    /\ config = 1
    /\ heap = [a \in Addrs |-> IF a = 1 THEN InitialConfig ELSE Free]
    /\ chatHistory = << MockMessage([prompt |-> prompt, config |-> 1], heap, 1) >>
    /\ currentResponse = chatHistory[1].response
    /\ storage = Stored(JSONstringify(heap, chatHistory))
    /\ toast = "Demo mode active"
    /\ inflight = NoCall
    /\ now = 1
    /\ fetchCalls = 0
    /\ edits = 0
    /\ outputMounted = FALSE
    /\ displayedContent = <<>>
    /\ isTyping = FALSE
    /\ timers = {}
    /\ effectDeps = NoDeps
    /\ cleanup = 0
    /\ restarted = FALSE

NextTimed ==
    \/ \E p \in Prompts : SetPrompt(p) /\ UNCHANGED outputVars
    \/ \E t \in ClockReadings : ClickGenerate(t) /\ UNCHANGED outputVars
    \/ \E t \in ClockReadings : ShortcutGenerate(t) /\ UNCHANGED outputVars
    \/ \E data \in Payloads : \E t \in ClockReadings :
           FetchResolves(data, t) /\ UNCHANGED outputVars
    \/ \E kind \in FailureKinds : \E t \in ClockReadings :
           FetchRejects(kind, t) /\ UNCHANGED outputVars
    \/ \E i \in 1..Len(chatHistory) : HandleHistorySelect(i) /\ UNCHANGED outputVars
    \/ ClearHistory /\ UNCHANGED outputVars

SpecTimed == InitTimed /\ [][NextTimed]_vars

----------------------------------------------------------------------------
(* Properties of the session controller, checked under Spec *)

\* the readings of Date.now() that Spec lets a handler take
Readings == {now}

SettleFails == \E kind \in FailureKinds : \E t \in Readings : FetchRejects(kind, t)
SettleSucceeds == \E data \in Payloads : \E t \in Readings : FetchResolves(data, t)

\* C1: a generate of a non-blank prompt whose collaborator call fails leaves, when it
\* completes, the collection it saw when it was called plus exactly one entry, at
\* the head, whose prompt is the submitted prompt and whose response is the fallback
\* text, which contains that prompt.
C1_FallbackAddsOneEntry ==
    [][SettleFails =>
         /\ Trim(inflight.prompt) # <<>>
         /\ Len(chatHistory') = Len(inflight.chatHistory) + 1
         /\ Deref(heap', Tail(chatHistory')) = Deref(heap, inflight.chatHistory)
         /\ chatHistory'[1].prompt = inflight.prompt
         /\ chatHistory'[1].response = MockResponse(inflight.prompt, heap[inflight.config])
         /\ Contains(chatHistory'[1].response, inflight.prompt)]_vars

C1_Witness ==
    /\ toast = "Demo mode active"
    /\ ~isGenerating
    /\ Len(chatHistory) = 2
    /\ chatHistory[1].prompt = <<" ", "b">>
    /\ Contains(chatHistory[1].response, <<" ", "b">>)

\* C2: handleGenerate called with an empty or whitespace-only prompt only raises the
\* "Empty prompt" toast: no request is issued, no call is left suspended, and
\* isGenerating, currentResponse, the history and the stored item stay as they were.
\* The button cannot make that call at all.
C2_BlankPromptRejected ==
    /\ [][\A t \in Readings :
            (Trim(prompt) = <<>> /\ ShortcutGenerate(t)) =>
               /\ toast' = "Empty prompt"
               /\ UNCHANGED <<isGenerating, currentResponse, chatHistory, heap, storage,
                              inflight, fetchCalls>>]_vars
    /\ [][\A t \in Readings : ClickGenerate(t) => Trim(prompt) # <<>>]_vars
    /\ [](inflight.kind = "call" => Trim(inflight.prompt) # <<>>)

C2_Witness ==
    /\ toast = "Empty prompt"
    /\ prompt = <<" ">>
    /\ ~isGenerating
    /\ fetchCalls = 0
    /\ chatHistory # <<>>

\* the entries of a collection, in their stored form
EntriesOf(h, hist) == { JSONstringify(h, hist)[i] : i \in 1..Len(hist) }
StoredEntries(st) == { StoredCollection(st)[i] : i \in 1..Len(StoredCollection(st)) }

\* the entries removed by a clearHistory since the suspended call was made
ClearedInFlight ==
    IF inflight.kind = "call"
    THEN EntriesOf(heap, inflight.chatHistory) \ EntriesOf(heap, chatHistory)
    ELSE {}

\* C3: an entry removed by clearHistory never comes back, neither in memory nor in
\* the stored item; here for the entries cleared while a request was in flight.
C3_ClearedNeverReappears ==
    [][\A e \in ClearedInFlight :
          e \notin EntriesOf(heap', chatHistory') /\ e \notin StoredEntries(storage')]_vars

\* the stored item mirrors the history in memory
Mirrors == StoredCollection(storage) = JSONstringify(heap, chatHistory)

\* C4: once the page is up, and so after every completed generate and every
\* clearHistory, the stored collection is the serialised in-memory history, entry
\* for entry (an absent key standing for the empty collection).
C4_StorageMirrorsMemory == phase = "ready" => Mirrors

C4_Witness ==
    /\ toast = "Text generated successfully!"
    /\ storage.kind = "json"
    /\ Len(storage.value) = 2
    /\ Len(chatHistory) = 2

\* C5: when a generation completes, on success and on failure alike, the entry it
\* built is the head of the history, the stored item is that same history, and
\* currentResponse is the new entry's response whatever was on display before.
C5_CompletionPublishesEntry ==
    [][(SettleFails \/ SettleSucceeds) =>
         /\ chatHistory' # <<>>
         /\ chatHistory'[1].prompt = inflight.prompt
         /\ heap'[chatHistory'[1].config] = heap[inflight.config]
         /\ Deref(heap', Tail(chatHistory')) = Deref(heap, inflight.chatHistory)
         /\ storage' = Stored(JSONstringify(heap', chatHistory'))
         /\ currentResponse' = chatHistory'[1].response
         /\ currentResponse' # <<>>]_vars

\* a history entry was selected while the request was in flight
C5_Witness ==
    /\ ~isGenerating
    /\ Len(chatHistory) = 2
    /\ prompt = chatHistory[2].prompt
    /\ prompt # chatHistory[1].prompt
    /\ currentResponse = chatHistory[1].response
    /\ currentResponse # chatHistory[2].response

\* C6: clearHistory empties the history in memory and removes the stored key, and
\* leaves prompt, currentResponse, config and isGenerating alone.
C6_ClearHistoryEffect ==
    [][ClearHistory =>
         /\ Len(chatHistory') = 0
         /\ storage' = Absent
         /\ UNCHANGED <<prompt, currentResponse, isGenerating>>
         /\ heap'[config'] = heap[config]]_vars

C6_Witness ==
    /\ toast = "History cleared"
    /\ chatHistory = <<>>
    /\ storage = Absent
    /\ currentResponse # <<>>
    /\ heap[config] # InitialConfig

\* C7: selecting entry i sets prompt, currentResponse and config to the entry's, and
\* leaves the history in memory and the stored item exactly as they were.
C7_SelectRestoresSnapshot ==
    [][\A i \in 1..Len(chatHistory) :
          HandleHistorySelect(i) =>
             /\ prompt' = chatHistory[i].prompt
             /\ currentResponse' = chatHistory[i].response
             /\ heap'[config'] = heap[chatHistory[i].config]
             /\ Deref(heap', chatHistory') = Deref(heap, chatHistory)
             /\ storage' = storage]_vars

C7_Witness ==
    /\ Len(chatHistory) = 2
    /\ config = chatHistory[2].config
    /\ prompt = chatHistory[2].prompt
    /\ currentResponse = chatHistory[2].response
    /\ heap[chatHistory[1].config] # heap[config]

Min(a, b) == IF a < b THEN a ELSE b

\* the config of the k-th oldest entry
ConfigFromEnd(h, hist, k) == h[hist[Len(hist) - k + 1].config]

\* C8: in every step, each entry that stays in the history keeps the config it was
\* created with (entries are aligned from the oldest, the history growing at its
\* head).
C8_SnapshotIsolation ==
    [][\A k \in 1..Min(Len(chatHistory), Len(chatHistory')) :
          ConfigFromEnd(heap', chatHistory', k) = ConfigFromEnd(heap, chatHistory, k)]_vars

\* an entry was selected and the config edited afterwards
C8_Witness ==
    \E i \in 1..Len(chatHistory) :
        /\ chatHistory[i].prompt = <<"a">>
        /\ prompt = <<"a">>
        /\ currentResponse = chatHistory[i].response
        /\ edits > 0
        /\ config # chatHistory[i].config
        /\ heap[config] # heap[chatHistory[i].config]
        /\ heap[chatHistory[i].config] = InitialConfig

\* C16: isGenerating is true exactly while a request is outstanding: from the
\* accepted generate on, and never cleared before the request has settled; the
\* step that settles the request clears it, whichever way the request ends (2xx
\* with any body, non-2xx, transport error, unparsable body).
C16_GeneratingUntilSettled ==
    /\ [](isGenerating <=> inflight.kind = "call")
    /\ [][(SettleFails \/ SettleSucceeds) => (isGenerating /\ ~isGenerating')]_vars
    /\ [][(isGenerating /\ ~isGenerating') => (SettleFails \/ SettleSucceeds)]_vars

\* a generation has ended in the catch block and isGenerating is cleared
C16_Witness ==
    /\ fetchCalls = 1
    /\ ~isGenerating
    /\ inflight = NoCall
    /\ toast = "Demo mode active"
    /\ currentResponse # <<>>

\* C17: while isGenerating is true the button and the textarea are disabled; every
\* call of handleGenerate the UI makes, and so every request issued, happens in a
\* state with no request outstanding.
C17_SingleOutstanding ==
    /\ [](isGenerating => (ButtonDisabled /\ TextareaDisabled))
    /\ [][\A t \in Readings :
            (ClickGenerate(t) \/ ShortcutGenerate(t)) =>
               (~isGenerating /\ inflight.kind = "none")]_vars
    /\ [][fetchCalls' # fetchCalls =>
            (~isGenerating /\ inflight.kind = "none" /\ fetchCalls' = fetchCalls + 1)]_vars

\* a request is outstanding and the prompt is one the button would accept
C17_Witness ==
    /\ isGenerating
    /\ inflight.kind = "call"
    /\ Trim(prompt) # <<>>
    /\ ButtonDisabled
    /\ TextareaDisabled

\* C21: on a 2xx response the new entry's response is the body's generated_text
\* whenever the body has that field, and the placeholder only when it has not; its
\* tokensUsed is the body's tokens_used whenever the body has that field, and 42
\* only when it has not.
C21_PayloadFieldsUsed ==
    [][\A data \in Payloads : \A t \in Readings :
          FetchResolves(data, t) =>
             /\ chatHistory'[1].response =
                   IF data.generated_text.defined THEN data.generated_text.value
                   ELSE Placeholder
             /\ chatHistory'[1].tokensUsed =
                   IF data.tokens_used.defined THEN data.tokens_used.value
                   ELSE DefaultTokensUsed]_vars

\* the page is up: the textarea takes input and handleGenerate can be invoked
Usable == phase = "ready"

\* C22: no error ends the session: after an empty-prompt rejection, after a failed
\* collaborator call and after reading a stored history that is not JSON, the page
\* is still up.
C22_NoFatalError ==
    /\ toast = "Empty prompt" => Usable
    /\ toast = "Demo mode active" => Usable
    /\ (storage = Malformed /\ phase # "mounting") => Usable

\* C23: the entry a generation adds records the prompt text and the four numeric
\* config values of the request body that generation sent, whatever has been done
\* to prompt and config while the request was in flight.
C23_EntryRecordsRequest ==
    [][(SettleFails \/ SettleSucceeds) =>
         /\ chatHistory'[1].prompt = inflight.body.text
         /\ RequestBody(chatHistory'[1].prompt, heap'[chatHistory'[1].config])
               = inflight.body]_vars

\* an earlier entry was selected while the request was in flight: the prompt and
\* the config of the page are no longer those of the new entry
C23_Witness ==
    /\ ~isGenerating
    /\ Len(chatHistory) = 2
    /\ currentResponse = chatHistory[1].response
    /\ prompt = chatHistory[2].prompt
    /\ prompt # chatHistory[1].prompt
    /\ heap[config] # heap[chatHistory[1].config]

\* the four numeric values of a config
Numbers(cfg) == [k \in NumericKeys |-> cfg[k]]

\* the entries of two completed generations
BothDone == ~isGenerating /\ Len(chatHistory) = 2

IsSuffix(s, t) == Len(s) <= Len(t) /\ SubSeq(t, Len(t) - Len(s) + 1, Len(t)) = s

\* the creation time of an entry, whether its timestamp is a Date or a stored string
CreatedAt(e) == e.timestamp.ms

\* C25: the history is newest first and grows only at its head: every step that is
\* not a clearHistory leaves the history it found as a suffix of the history it
\* leaves, with every entry as it was; every completed generation, successful or
\* fallback, adds one entry, its own, at the head.
C25_GrowsAtHead ==
    /\ [][IsSuffix(Deref(heap, chatHistory), Deref(heap', chatHistory'))
            \/ ClearHistory]_vars
    /\ [][(SettleFails \/ SettleSucceeds) =>
            /\ Len(chatHistory') = Len(inflight.chatHistory) + 1
            /\ chatHistory'[1].prompt = inflight.prompt
            /\ CreatedAt(chatHistory'[1]) = now'
            /\ Deref(heap', Tail(chatHistory')) = Deref(heap, inflight.chatHistory)]_vars
    /\ [](\A i \in 1..Len(chatHistory) : \A j \in i..Len(chatHistory) :
             CreatedAt(chatHistory[i]) >= CreatedAt(chatHistory[j]))

\* a generation has added its entry in front of the stored one
C25_Witness ==
    /\ Len(chatHistory) = 2
    /\ chatHistory[1].prompt = <<" ", "b">>
    /\ chatHistory[2].prompt = <<"a">>
    /\ CreatedAt(chatHistory[1]) > CreatedAt(chatHistory[2])
    /\ toast = "Text generated successfully!"

\* the documented domains: temperature [0.1, 1.5], maxTokens [10, 500], topK
\* [1, 100], topP [0.1, 1.0], preset one of the three names
InDomain(cfg) ==
    /\ DOMAIN cfg = {"temperature", "maxTokens", "topK", "topP", "preset"}
    /\ cfg.temperature \in 10..150
    /\ cfg.maxTokens \in 10..500
    /\ cfg.topK \in 1..100
    /\ cfg.topP \in 10..100
    /\ cfg.preset \in {"creative", "balanced", "precise"}

\* C26: with sliders that stay inside their min/max and a stored history that is
\* empty or was written by this program, the config is within the documented
\* domains in every state, and so is the config of every history entry.
C26_ConfigInDomain ==
    /\ InDomain(heap[config])
    /\ \A i \in 1..Len(chatHistory) : InDomain(heap[chatHistory[i].config])

\* the config was taken from a stored entry and then a slider moved to its end
C26_Witness ==
    /\ Len(chatHistory) > 0
    /\ edits > 0
    /\ prompt = <<"a">>
    /\ heap[config].maxTokens = 500
    /\ heap[config].preset = "balanced"

----------------------------------------------------------------------------
(* Properties of the config store, checked under SpecSettings *)

\* the ModelConfig object the config state refers to
CurrentConfig == heap[config]

\* the canonical values of the presets: creative 1.2/200/80/0.95, balanced
\* 0.7/150/50/0.9, precise 0.3/100/20/0.8
CanonicalPreset(name) ==
    CASE name = "creative" ->
           [temperature |-> 120, maxTokens |-> 200, topK |-> 80, topP |-> 95,
            preset |-> "creative"]
      [] name = "balanced" ->
           [temperature |-> 70, maxTokens |-> 150, topK |-> 50, topP |-> 90,
            preset |-> "balanced"]
      [] name = "precise" ->
           [temperature |-> 30, maxTokens |-> 100, topK |-> 20, topP |-> 80,
            preset |-> "precise"]

\* C18: for every preset name and every prior config, handlePresetChange(name)
\* leaves a config that is exactly the preset's four canonical values with the tag
\* name: nothing of the prior config is left in it.
C18_PresetReplacesConfig ==
    [][\A name \in PresetNames :
          HandlePresetChange(name) => CurrentConfig' = CanonicalPreset(name)]_vars

\* 'precise' has been applied
C18_Witness ==
    /\ edits = 1
    /\ CurrentConfig = CanonicalPreset("precise")

\* C19: updateConfig(key, value) on a numeric field leaves the config with that
\* field equal to value and the other three fields and the preset tag as they
\* were, whether or not the values still agree with the preset named by the tag.
C19_UpdateSetsOneField ==
    [][\A key \in NumericKeys : \A value \in FieldValues[key] :
          UpdateConfig(key, value) =>
             /\ CurrentConfig'[key] = value
             /\ \A k \in (DOMAIN CurrentConfig) \ {key} : CurrentConfig'[k] = CurrentConfig[k]
             /\ DOMAIN CurrentConfig' = DOMAIN CurrentConfig]_vars

\* 'balanced' values with the temperature moved to 0.3, the tag still 'balanced'
C19_Witness ==
    /\ edits = 1
    /\ CurrentConfig = [CanonicalPreset("balanced") EXCEPT !.temperature = 30]

\* the config the claim gives for reset() and for the start of the session
Defaults ==
    [temperature |-> 70, maxTokens |-> 150, topK |-> 50, topP |-> 90, preset |-> "balanced"]

\* C20: handleReset, from any config, leaves exactly temperature 0.7, maxTokens 150,
\* topK 50, topP 0.9, preset balanced, which is the config the page starts with.
C20_ResetYieldsDefaults ==
    /\ [][HandleReset => CurrentConfig' = Defaults]_vars
    /\ [](InitialConfig = Defaults)

\* the reset button was used
C20_Witness ==
    /\ edits = 1
    /\ CurrentConfig = Defaults
    /\ config = 1
    /\ \A a \in Addrs \ {1} : heap[a] = Free

----------------------------------------------------------------------------
(* Properties of the OutputBox, checked under SpecPlayer *)

\* C9: at most one reveal timer is active at any time; and when the effect starts
\* a reveal, the timer of the previous run is gone, the new timer is the only one,
\* it starts at index 0 of the current content, and the displayed text is empty.
C9_OneRevealTimer ==
    /\ [](Cardinality(timers) <= 1)
    /\ [][(RunEffect /\ outputMounted /\ currentResponse # <<>> /\ ~isGenerating) =>
            /\ \A t \in timers' : t.id # cleanup
            /\ \E t \in timers' :
                  timers' = {t} /\ t.content = currentResponse /\ t.index = 0
            /\ displayedContent' = <<>>]_vars

\* a reveal has just been restarted over one that was still running
C9_Witness ==
    /\ restarted
    /\ displayedContent = <<>>
    /\ isTyping
    /\ \E t \in timers : t.index = 0 /\ t.content = <<"x", "y">>

\* the effect has run for the current props and they ask for a reveal
Revealing ==
    outputMounted /\ ~EffectPending /\ currentResponse # <<>> /\ ~isGenerating

\* C10: from the start of the reveal of the current content on, only the timer of
\* that reveal is left to tick and the displayed text is a prefix of the current
\* content, whatever reveal was running before.
C10_NoStaleTick ==
    Revealing =>
       /\ IsPrefix(displayedContent, currentResponse)
       /\ \A t \in timers : t.content = currentResponse /\ t.id = cleanup

\* the reveal of "xy" is under way after it cut another reveal short
C10_Witness ==
    /\ restarted
    /\ Revealing
    /\ currentResponse = <<"x", "y">>
    /\ displayedContent = <<"x">>
    /\ \E t \in timers : t.index = 1

\* the ticks the timer of the current reveal has made: the characters it has revealed
\* while it runs, one more once it has stopped itself
TicksMade(t) == t.index

\* C11: in an uninterrupted reveal of content of length n, once n ticks have been
\* made the displayed text is the content and isTyping is false; isTyping is true
\* while the content is not yet fully revealed and false from then on.
C11_RevealCompletes ==
    Revealing =>
       /\ \A t \in timers :
             TicksMade(t) >= Len(currentResponse) =>
                displayedContent = currentResponse /\ ~isTyping
       /\ \A t \in timers : TicksMade(t) < Len(currentResponse) => isTyping
       /\ timers = {} => displayedContent = currentResponse /\ ~isTyping

\* the effect starts a reveal for the current props
Activates == RunEffect /\ outputMounted /\ currentResponse # <<>> /\ ~isGenerating

\* C12: activation empties the displayed text; while the reveal of the current
\* content runs, the displayed text after k ticks is the first min(k, n) characters
\* of the content; each tick adds exactly one character until all are shown, and
\* never removes one; and a reveal that is not restarted comes to show the whole
\* content.
C12_PrefixGrowth ==
    /\ [][Activates => displayedContent' = <<>>]_vars
    /\ [](Revealing =>
            /\ \A t \in timers :
                  /\ t.index <= Len(currentResponse)
                  /\ displayedContent = Slice0(currentResponse, t.index)
            /\ timers = {} => displayedContent = currentResponse)
    /\ [][\A t \in timers :
            (Revealing /\ TimerTick(t)) =>
               /\ IsPrefix(displayedContent, displayedContent')
               /\ Len(displayedContent') =
                     Min(Len(displayedContent) + 1, Len(currentResponse))]_vars
    /\ (Revealing ~> (displayedContent = currentResponse \/ ~Revealing))

\* two of the three characters have been revealed
C12_Witness ==
    /\ Revealing
    /\ currentResponse = <<"a", "b", "c">>
    /\ displayedContent = <<"a", "b">>
    /\ \E t \in timers : t.index = 2

\* the effect has run for the props of the last render
EffectsFlushed == outputMounted /\ ~EffectPending

\* C13: a timer is created only by the effect, only when content is non-empty and
\* isGenerating is false, and it reveals the content of that state from its start;
\* once the effect has run for props with isGenerating true or content empty, no
\* timer is active, so that no tick can change the displayed text.
C13_RevealOnlyWhenReady ==
    /\ [][\A t \in timers' :
            (\A u \in timers : u.id # t.id) =>
               /\ RunEffect
               /\ outputMounted /\ currentResponse # <<>> /\ ~isGenerating
               /\ t.content = currentResponse /\ t.index = 0]_vars
    /\ []((EffectsFlushed /\ (isGenerating \/ currentResponse = <<>>)) =>
             (timers = {} /\ ~ENABLED TimerFires))

\* a running reveal was stopped by isGenerating becoming true
C13_Witness ==
    /\ EffectsFlushed
    /\ isGenerating
    /\ currentResponse # <<>>
    /\ timers = {}
    /\ isTyping
    /\ displayedContent = <<"a">>

\* the effects of the last render have run, mounted or not
Settled == ~EffectPending

\* C14: once the effects of a render have run, every active timer is the one the
\* effect created for the current (content, isGenerating) pair: nothing is left of a
\* timer created for an earlier pair or for an OutputBox that was unmounted, so none
\* of its ticks can fire; and the tick that ends a reveal removes its own timer.
C14_TimerReleased ==
    /\ [](Settled =>
            \A t \in timers :
               /\ outputMounted
               /\ t.id = cleanup
               /\ t.content = currentResponse
               /\ currentResponse # <<>> /\ ~isGenerating)
    /\ []((Settled /\ ~outputMounted) => ~ENABLED TimerFires)
    /\ [][\A t \in timers :
            (TimerTick(t) /\ t.index >= Len(t.content)) =>
               \A u \in timers' : u.id # t.id]_vars

\* the content was taken away in the middle of a reveal
C14_Witness ==
    /\ EffectsFlushed
    /\ currentResponse = <<>>
    /\ ~isGenerating
    /\ displayedContent = <<"x">>
    /\ isTyping
    /\ timers = {}
    /\ cleanup = 0

\* the reveal of the current content has run to its end
RevealDone ==
    /\ outputMounted
    /\ effectDeps = Deps(currentResponse, isGenerating)
    /\ currentResponse # <<>> /\ ~isGenerating
    /\ timers = {}
    /\ displayedContent = currentResponse
    /\ ~isTyping

\* C15: after a reveal has run to its end, a render that passes the same content
\* and isGenerating = false leaves the displayed text equal to the content and
\* isTyping false, starts no timer and schedules no run of the effect; so the same
\* holds after any number of such renders.
C15_NoRestartOnRerender ==
    [][(/\ RevealDone
        /\ outputMounted'
        /\ currentResponse' = currentResponse
        /\ isGenerating' = isGenerating) =>
          (RevealDone' /\ ~EffectPending')]_vars

\* the parent's prompt changed and the finished reveal stands
C15_Witness ==
    /\ RevealDone
    /\ currentResponse = <<"a", "b", "c">>
    /\ prompt = <<" ", "b">>

----------------------------------------------------------------------------
(* Properties of the session controller under an advancing clock, checked under *)
(* SpecTimed                                                                    *)

\* C27: the entries of the history have pairwise distinct ids, an id being the
\* creation time in milliseconds as a string, also when generations complete
\* within the same millisecond.
C27_DistinctIds ==
    \A i \in 1..Len(chatHistory) : \A j \in 1..Len(chatHistory) :
        i # j => chatHistory[i].id # chatHistory[j].id

\* the output panel shows a response: Index renders the OutputBox for a non-empty
\* currentResponse and the OutputBox is past its spinner
ResponseShown == currentResponse # <<>> /\ ~isGenerating

\* C28: when the panel shows a response with an inference time and a token count,
\* the two numbers are the inferenceTime and tokensUsed of an entry of the history
\* that has the response shown.
C28_MetricsOfShownEntry ==
    (ResponseShown /\ InferenceTimeShown /\ TokensUsedShown) =>
        \E i \in 1..Len(chatHistory) :
            /\ chatHistory[i].response = currentResponse
            /\ chatHistory[i].inferenceTime = InferenceTimeProp.value
            /\ chatHistory[i].tokensUsed = TokensUsedProp.value

----------------------------------------------------------------------------
(* Properties of the page composition, checked under SpecPage *)

\* the OutputBox is rendered past its spinner with content to show
TextVisible == outputMounted /\ ~isGenerating /\ currentResponse # <<>>

\* C29: in every rendered state of the page where the output text is visible, the
\* displayed text is a prefix of the current content, the render between a change
\* of content and the run of the reveal effect included.
C29_NoStaleText ==
    TextVisible => IsPrefix(displayedContent, currentResponse)

\* C30: in the page, whenever isGenerating is false and the typing cursor is shown
\* (isTyping), a reveal timer is active.
C30_CursorHasTimer ==
    (outputMounted /\ ~isGenerating /\ isTyping) => timers # {}

====
